---- MODULE Spec2Model ----
(***************************************************************************)
(* User management backend (Go variant): HTTP handlers, user service and   *)
(* bun repository over one "users" table.                                  *)
(*                                                                         *)
(* Strings that the validator inspects (userName, firstName, lastName,     *)
(* email, department) are sequences of one-character strings; userStatus   *)
(* and error messages are plain strings.  Time is an integer count of      *)
(* clock ticks; the store keeps timestamps at a coarser resolution.        *)
(* reply is the outcome of the call that ended in the last step.           *)
(***************************************************************************)
EXTENDS Integers, Sequences, FiniteSets, TLC

VARIABLES store, nextId, clock, proc, reply

vars == <<store, nextId, clock, proc, reply>>

(***************************************************************************)
(* Bounds of the model                                                     *)
(***************************************************************************)
\* number of values the users_user_id sequence may hand out
MaxId == 2
\* last clock tick
MaxClock == 2
\* clock ticks per unit of the store's timestamp resolution
Resolution == 2
\* longest department that the validator is given character by character
MaxDeptLen == 2

Procs == {"p1", "p2"}

(***************************************************************************)
(* models.UserStatus                                                       *)
(***************************************************************************)
UserStatusActive == "A"
UserStatusInactive == "I"
UserStatusTerminated == "T"

(***************************************************************************)
(* Field limits of models.UserCommon (validate tags)                       *)
(***************************************************************************)
UserNameMin == 4
FirstNameMin == 1
LastNameMin == 1
FieldMax == 255

(***************************************************************************)
(* Characters                                                              *)
(***************************************************************************)
Digits == {"0", "1", "2", "3", "4", "5", "6", "7", "8", "9"}
AsciiLetters ==
    {"a", "b", "c", "d", "e", "f", "g", "h", "i", "j", "k", "l", "m",
     "n", "o", "p", "q", "r", "s", "t", "u", "v", "w", "x", "y", "z",
     "A", "B", "C", "D", "E", "F", "G", "H", "I", "J", "K", "L", "M",
     "N", "O", "P", "Q", "R", "S", "T", "U", "V", "W", "X", "Y", "Z"}
\* letters outside ASCII that the model uses (\p{L})
OtherLetters == {"e-acute", "n-tilde"}
\* the punctuation alphaUnicodeNumericRegexString admits besides the space
DeptPunct == {",", ".", ":", ";", "&", "#"}
\* unicode.IsSpace characters the model uses
WhiteSpace == {" ", "\t"}

\* go-playground "alphanum": ^[a-zA-Z0-9]+$
IsAlphanum(s) ==
    /\ Len(s) > 0
    /\ \A i \in 1..Len(s) : s[i] \in AsciiLetters \cup Digits

\* go-playground "alphanumunicode": ^[\p{L}\p{N}]+$
IsAlphanumUnicode(s) ==
    /\ Len(s) > 0
    /\ \A i \in 1..Len(s) : s[i] \in AsciiLetters \cup OtherLetters \cup Digits

\* strings.TrimSpace
RECURSIVE TrimLeft(_)
TrimLeft(s) ==
    IF Len(s) > 0 /\ s[1] \in WhiteSpace THEN TrimLeft(Tail(s)) ELSE s

RECURSIVE TrimRight(_)
TrimRight(s) ==
    IF Len(s) > 0 /\ s[Len(s)] \in WhiteSpace
    THEN TrimRight(SubSeq(s, 1, Len(s) - 1))
    ELSE s

TrimSpace(s) == TrimRight(TrimLeft(s))

\* alphaUnicodeNumericRegexString: ^[\p{L}\p{N},.:;&# ]+$
alphaUnicodeNumericRegex(s) ==
    /\ Len(s) > 0
    /\ \A i \in 1..Len(s) :
          s[i] \in AsciiLetters \cup OtherLetters \cup Digits \cup DeptPunct \cup {" "}

\* IsAlphanumUnicodeWithSpaces without the strings.TrimSpace check
IsAlphanumUnicodeNoTrim(value) == alphaUnicodeNumericRegex(value)

IsAlphanumUnicodeWithSpaces(value) ==
    IF TrimSpace(value) = <<>>
    THEN FALSE
    ELSE alphaUnicodeNumericRegex(value)

\* go-playground "email", over the model's alphabet: one "@", a local part
\* and a domain of letters, digits, "." and "-", neither starting nor
\* ending with "." and the domain holding no "-" at either end
IsEmail(s) ==
    \E k \in 1..Len(s) :
        /\ s[k] = "@"
        /\ \A i \in 1..Len(s) : i # k => s[i] \in AsciiLetters \cup Digits \cup {".", "-"}
        /\ k > 1 /\ k < Len(s)
        /\ s[1] # "." /\ s[k - 1] # "."
        /\ s[k + 1] \notin {".", "-"} /\ s[Len(s)] \notin {".", "-"}

(***************************************************************************)
(* validate tags of models.UserCommon: the first tag a field fails, or ""  *)
(***************************************************************************)
\* the userName tags without min=4
UserNameTagNoMin(s) ==
    IF s = <<>> THEN "required"
    ELSE IF Len(s) > FieldMax THEN "max"
    ELSE IF ~IsAlphanum(s) THEN "alphanum"
    ELSE ""

UserNameTag(s) ==
    IF s = <<>> THEN "required"
    ELSE IF Len(s) < UserNameMin THEN "min"
    ELSE IF Len(s) > FieldMax THEN "max"
    ELSE IF ~IsAlphanum(s) THEN "alphanum"
    ELSE ""

FirstNameTag(s) ==
    IF s = <<>> THEN "required"
    ELSE IF Len(s) < FirstNameMin THEN "min"
    ELSE IF Len(s) > FieldMax THEN "max"
    ELSE IF ~IsAlphanumUnicode(s) THEN "alphanumunicode"
    ELSE ""

LastNameTag(s) ==
    IF s = <<>> THEN "required"
    ELSE IF Len(s) < LastNameMin THEN "min"
    ELSE IF Len(s) > FieldMax THEN "max"
    ELSE IF ~IsAlphanumUnicode(s) THEN "alphanumunicode"
    ELSE ""

EmailTag(s) ==
    IF s = <<>> THEN "required"
    ELSE IF Len(s) > FieldMax THEN "max"
    ELSE IF ~IsEmail(s) THEN "email"
    ELSE ""

\* the userStatus tags without required and oneof
UserStatusTagNone(st) == ""

UserStatusTag(st) ==
    IF st = "" THEN "required"
    ELSE IF st \notin {"A", "I", "T"} THEN "oneof"
    ELSE ""

DepartmentTag(s) ==
    IF s = <<>> THEN ""
    ELSE IF Len(s) > FieldMax THEN "max"
    ELSE IF ~IsAlphanumUnicodeWithSpaces(s) THEN "alphaNumUnicodeWithSpaces"
    ELSE ""

\* validator.Struct on a models.UserCommon: the failing fields, in field
\* order, each with the tag it failed
FieldTags(req) ==
    << <<"UserName", UserNameTag(req.userName)>>,
       <<"FirstName", FirstNameTag(req.firstName)>>,
       <<"LastName", LastNameTag(req.lastName)>>,
       <<"Email", EmailTag(req.email)>>,
       <<"UserStatus", UserStatusTag(req.userStatus)>>,
       <<"Department", DepartmentTag(req.department)>> >>

FieldFailed(ft) == ft[2] # ""

\* wrapper.Validate on a UserCreateRequest
ValidateCreate(req) == SelectSeq(FieldTags(req), FieldFailed)

\* a UserUpdateRequest whose email carries no validate tag
ValidateUpdateNoEmailTag(req) ==
    SelectSeq(FieldTags([req EXCEPT !.email = <<"a", "@", "x", ".", "c", "o">>]),
              FieldFailed)

\* an UpdateUser handler that does not validate
ValidateUpdateNothing(req) == <<>>

\* wrapper.Validate on a UserUpdateRequest
ValidateUpdate(req) == SelectSeq(FieldTags(req), FieldFailed)

(***************************************************************************)
(* Request payloads the callers send                                       *)
(***************************************************************************)
john == <<"j", "o", "h", "n">>
mary == <<"m", "a", "r", "y">>
abc == <<"a", "b", "c">>
John == <<"J", "o", "h", "n">>
Mary == <<"M", "a", "r", "y">>
Doe == <<"D", "o", "e">>
Roe == <<"R", "o", "e">>
mailA == <<"a", "@", "x", ".", "c", "o">>
mailB == <<"b", "@", "y", ".", "c", "o">>
deptIT == <<"I", "T">>
deptITCo == <<"I", "T", " ", "&", " ", "C", "o">>

Req(un, fn, ln, em, st, dp) ==
    [userName |-> un, firstName |-> fn, lastName |-> ln,
     email |-> em, userStatus |-> st, department |-> dp]

\* the zero value of models.UserCommon
ZeroReq == Req(<<>>, <<>>, <<>>, <<>>, "", <<>>)

ReqJohnA == Req(john, John, Doe, mailA, "A", deptIT)
ReqMaryB == Req(mary, Mary, Roe, mailB, "T", <<>>)
ReqJohnB == Req(john, Mary, Roe, mailB, "I", deptITCo)
ReqJohnA2 == Req(john, John, Doe, mailA, "T", deptITCo)
\* a three-character userName
ReqShortName == Req(abc, John, Doe, mailA, "A", deptIT)
\* only firstName present
ReqMissing == Req(<<>>, John, <<>>, <<>>, "", <<>>)
\* a status outside A, I, T, and no status
ReqBadStatus == Req(john, John, Doe, mailA, "X", deptIT)
ReqNoStatus == Req(mary, Mary, Roe, mailB, "", <<>>)

ValidReqs == {ReqJohnA, ReqMaryB, ReqJohnB, ReqJohnA2}
InvalidReqs == {ReqShortName, ReqMissing, ReqBadStatus, ReqNoStatus}
Reqs == ValidReqs \cup InvalidReqs
\* the payloads of the concurrent callers
RaceReqs == {ReqJohnA, ReqMaryB, ReqJohnB}

Ids == 1..MaxId

\* payloads given to the validator: every department of up to MaxDeptLen
\* characters (a letter, a letter outside ASCII, a digit, a space, a tab, an
\* admitted and a not admitted punctuation mark), one of FieldMax and one of
\* FieldMax + 1 characters, combined with valid and invalid values of the
\* other five fields
DeptChars == {"a", "e-acute", "7", " ", "\t", "&", "-"}
Departments ==
    UNION {[1..n -> DeptChars] : n \in 0..MaxDeptLen}
        \cup {[i \in 1..FieldMax |-> "a"], [i \in 1..(FieldMax + 1) |-> "a"]}
UserNames == {john, abc, <<>>, <<"j", "o", "-", "n">>}
FirstNames == {John, <<>>, <<"J", "!">>}
LastNames == {Doe, <<"e-acute">>, <<>>}
Emails == {mailA, <<>>, <<"a", "x">>}
Statuses == {"A", "X", ""}
ValidationInputs ==
    {Req(john, John, Doe, mailA, "A", dp) : dp \in Departments}
        \cup {Req(un, fn, ln, em, st, dp) :
                 un \in UserNames, fn \in FirstNames, ln \in LastNames,
                 em \in Emails, st \in Statuses, dp \in {<<>>, deptIT, <<" ">>}}

(***************************************************************************)
(* models.User and the rows of the users table                             *)
(***************************************************************************)
\* the zero value of models.User
ZeroUser ==
    [id |-> 0, userName |-> <<>>, firstName |-> <<>>, lastName |-> <<>>,
     email |-> <<>>, userStatus |-> "", department |-> <<>>,
     createdAt |-> 0, updatedAt |-> 0]

\* a timestamp as the timestamptz column keeps it
StoreTime(t) == t - (t % Resolution)

\* the row that an INSERT or UPDATE of the model writes
RowOf(user) ==
    [user EXCEPT !.createdAt = StoreTime(user.createdAt),
                 !.updatedAt = StoreTime(user.updatedAt)]

\* error values a service call returns
ErrUserNameExists == "username already exists"
ErrEmailExists == "email already exists"
ErrInvalidStatus == "invalid user status"
ErrNoRows == "sql: no rows in result set"
ErrUniqueViolation == "duplicate key value violates unique constraint"
ErrStore == "store failure"

\* HTTP status codes the handlers answer with
StatusOK == 200
StatusCreated == 201
StatusAccepted == 202
StatusBadRequest == 400
StatusNotFound == 404
StatusUnprocessableEntity == 422
StatusInternalServerError == 500

MsgUserNotFound == "user not found"

Resp(code, error, fields, users) ==
    [code |-> code, error |-> error, fields |-> fields, users |-> users]

NoResp == Resp(0, "", <<>>, <<>>)

(***************************************************************************)
(* userRepository: queries over the users table                            *)
(***************************************************************************)
\* ExistsByUserName with a query that matches no row
ExistsByUserNameNever(userName) == FALSE

\* SELECT EXISTS ... WHERE user_name = ?
ExistsByUserName(userName) ==
    \E i \in DOMAIN store : store[i].userName = userName

\* ExistsByEmail with the exclusion applied to the email column
ExistsByEmailWrongColumn(email, excludeID) ==
    \E i \in DOMAIN store :
        /\ store[i].email = email
        /\ store[i].email # email

\* SELECT EXISTS ... WHERE email = ? [AND user_id != ?]
ExistsByEmail(email, excludeID) ==
    \E i \in DOMAIN store :
        /\ store[i].email = email
        /\ (excludeID # 0 => i # excludeID)

\* a users table without the unique constraint on email
EmailUniqueViolatedNever(email, id) == FALSE

\* the unique constraint on the email column (bun:"email,unique,notnull"):
\* a row other than id already holds the email
EmailUniqueViolated(email, id) ==
    \E i \in DOMAIN store : i # id /\ store[i].email = email

\* the ids of the stored rows in descending order
RECURSIVE SortedIdsDescending(_)
SortedIdsDescending(S) ==
    IF S = {} THEN <<>>
    ELSE LET m == CHOOSE x \in S : \A y \in S : x >= y
         IN <<m>> \o SortedIdsDescending(S \ {m})

\* the ids of the stored rows in ascending order
RECURSIVE SortedIds(_)
SortedIds(S) ==
    IF S = {} THEN <<>>
    ELSE LET m == CHOOSE x \in S : \A y \in S : x <= y
         IN <<m>> \o SortedIds(S \ {m})

\* SELECT ... ORDER BY user_id ASC
List == [k \in 1..Cardinality(DOMAIN store) |-> store[SortedIds(DOMAIN store)[k]]]

(***************************************************************************)
(* Initial state: an empty table, a fresh sequence, idle callers           *)
(***************************************************************************)
\* a caller between calls
IdleProc ==
    [pc |-> "idle", op |-> "none", id |-> 0, req |-> ZeroReq, user |-> ZeroUser]

\* the outcome of a call: the step it ended at, the error the service
\* returned ("" for nil), the rows the final statement affected, the
\* models.User the service returned, the handler's response, and the
\* models.User that UpdateUser had loaded (the zero value otherwise)
Outcome(op, id, req, at, err, rows, user, resp) ==
    [op |-> op, id |-> id, req |-> req, at |-> at, err |-> err,
     rows |-> rows, user |-> user, resp |-> resp, loaded |-> ZeroUser]

NoReply == Outcome("none", 0, ZeroReq, "none", "", 0, ZeroUser, NoResp)

Init ==
    /\ store = <<>>
    /\ nextId = 1
    /\ clock = 0
    /\ proc = [p \in Procs |-> IdleProc]
    /\ reply = NoReply

Free(p) == proc[p].pc = "idle"

\* every other caller is between calls
Quiet(p) == \A q \in Procs \ {p} : Free(q)

\* p's call ends: reply is the outcome of the call that ended in the step
\* just taken, NoReply when none did
Finish(p, at, err, rows, user, resp) ==
    /\ proc' = [proc EXCEPT ![p] = IdleProc]
    /\ reply' = [Outcome(proc[p].op, proc[p].id, proc[p].req, at, err, rows, user, resp)
                  EXCEPT !.loaded = proc[p].user]

\* p's call goes on to its next step; no call ends
Goto(p, pc) ==
    /\ proc' = [proc EXCEPT ![p].pc = pc]
    /\ reply' = NoReply

(***************************************************************************)
(* POST /users: UserHandler.CreateUser and userService.CreateUser          *)
(***************************************************************************)
\* what UserHandler.CreateUser answers to an error of the service
CreateErrorResp(err) == Resp(StatusBadRequest, err, <<>>, <<>>)

\* what the handlers answer to a payload that fails validation
ValidationResp(errs) == Resp(StatusUnprocessableEntity, "validation", errs, <<>>)

\* the handler binds and validates the payload, then enters the service
CreateUserCall(p, req) ==
    /\ Free(p)
    /\ LET errs == ValidateCreate(req) IN
       IF errs # <<>>
       THEN /\ reply' = Outcome("create", 0, req, "Validate", "", 0, ZeroUser,
                                ValidationResp(errs))
            /\ UNCHANGED proc
       ELSE /\ proc' = [proc EXCEPT ![p] =
                   [IdleProc EXCEPT !.pc = "CheckUserName", !.op = "create", !.req = req]]
            /\ reply' = NoReply
    /\ UNCHANGED <<store, nextId, clock>>

\* s.repo.ExistsByUserName(ctx, req.UserName)
CreateUserCheckUserName(p, fails) ==
    /\ proc[p].pc = "CheckUserName" /\ proc[p].op = "create"
    /\ IF fails
          THEN Finish(p, "CheckUserName", ErrStore, 0, ZeroUser, CreateErrorResp(ErrStore))
          ELSE IF ExistsByUserName(proc[p].req.userName)
          THEN Finish(p, "CheckUserName", ErrUserNameExists, 0, ZeroUser,
                      CreateErrorResp(ErrUserNameExists))
          ELSE Goto(p, "CheckEmail")
    /\ UNCHANGED <<store, nextId, clock>>

\* s.repo.ExistsByEmail(ctx, req.Email, 0)
CreateUserCheckEmail(p, fails) ==
    /\ proc[p].pc = "CheckEmail" /\ proc[p].op = "create"
    /\ IF fails
          THEN Finish(p, "CheckEmail", ErrStore, 0, ZeroUser, CreateErrorResp(ErrStore))
          ELSE IF ExistsByEmail(proc[p].req.email, 0)
          THEN Finish(p, "CheckEmail", ErrEmailExists, 0, ZeroUser,
                      CreateErrorResp(ErrEmailExists))
          ELSE Goto(p, "Insert")
    /\ UNCHANGED <<store, nextId, clock>>

\* a reading of time.Now(): clock is the latest reading, and the clock does
\* not go backwards
Now == clock..MaxClock

\* req.UserStatus is one of the three status constants
ValidStatus(st) ==
    ~ (st # UserStatusActive /\ st # UserStatusInactive /\ st # UserStatusTerminated)

\* the models.User that CreateUser builds: two readings of time.Now()
NewUser(req, created, updated) ==
    [id |-> 0, userName |-> req.userName, firstName |-> req.firstName,
     lastName |-> req.lastName, email |-> req.email,
     userStatus |-> req.userStatus, department |-> req.department,
     createdAt |-> created, updatedAt |-> updated]

\* a CreateUser over a table that hands out the lowest id not in use
CreateUserInsertLowestFreeId(p, fails) ==
    /\ proc[p].pc = "Insert" /\ proc[p].op = "create"
    /\ Ids \ DOMAIN store # {}
    /\ UNCHANGED nextId
    /\ \E created \in Now : \E updated \in created..MaxClock :
         LET free == CHOOSE i \in Ids \ DOMAIN store :
                         \A j \in Ids \ DOMAIN store : i <= j
             inserted == [NewUser(proc[p].req, created, updated) EXCEPT !.id = free]
         IN /\ clock' = updated
            /\ store' = [i \in DOMAIN store \cup {free} |->
                            IF i = free THEN RowOf(inserted) ELSE store[i]]
            /\ Finish(p, "Insert", "", 1, inserted,
                      Resp(StatusCreated, "", <<>>, <<inserted>>))

\* the status check, the new models.User and s.repo.Create(ctx, user):
\* INSERT ... RETURNING user_id; the sequence value is consumed even when
\* the unique constraint on email rejects the row
CreateUserInsert(p, fails) ==
    /\ proc[p].pc = "Insert" /\ proc[p].op = "create"
    /\ LET req == proc[p].req IN
       IF ~ValidStatus(req.userStatus)
       THEN /\ Finish(p, "Insert", ErrInvalidStatus, 0, ZeroUser,
                      CreateErrorResp(ErrInvalidStatus))
            /\ UNCHANGED <<store, nextId, clock>>
       ELSE \E created \in Now : \E updated \in created..MaxClock :
            /\ clock' = updated
            /\ LET user == NewUser(req, created, updated) IN
               IF fails
               THEN /\ Finish(p, "Insert", ErrStore, 0, ZeroUser, CreateErrorResp(ErrStore))
                    /\ UNCHANGED <<store, nextId>>
               ELSE /\ nextId <= MaxId
                    /\ nextId' = nextId + 1
                    /\ IF EmailUniqueViolated(req.email, nextId)
                       THEN /\ Finish(p, "Insert", ErrUniqueViolation, 0, ZeroUser,
                                      CreateErrorResp(ErrUniqueViolation))
                            /\ UNCHANGED store
                       ELSE LET inserted == [user EXCEPT !.id = nextId] IN
                            /\ store' = [i \in DOMAIN store \cup {nextId} |->
                                            IF i = nextId THEN RowOf(inserted) ELSE store[i]]
                            /\ Finish(p, "Insert", "", 1, inserted,
                                      Resp(StatusCreated, "", <<>>, <<inserted>>))

(***************************************************************************)
(* PUT /users/:id: UserHandler.UpdateUser and userService.UpdateUser       *)
(***************************************************************************)
\* what UserHandler.UpdateUser answers to an error of the service
UpdateErrorResp(err) ==
    IF err = ErrUserNameExists \/ err = ErrEmailExists \/ err = ErrInvalidStatus
    THEN Resp(StatusBadRequest, err, <<>>, <<>>)
    ELSE Resp(StatusNotFound, MsgUserNotFound, <<>>, <<>>)

\* the handler binds and validates the payload, then enters the service
UpdateUserCall(p, id, req) ==
    /\ Free(p)
    /\ LET errs == ValidateUpdate(req) IN
       IF errs # <<>>
       THEN /\ reply' = Outcome("update", id, req, "Validate", "", 0, ZeroUser,
                                ValidationResp(errs))
            /\ UNCHANGED proc
       ELSE /\ proc' = [proc EXCEPT ![p] =
                   [IdleProc EXCEPT !.pc = "Load", !.op = "update", !.id = id, !.req = req]]
            /\ reply' = NoReply
    /\ UNCHANGED <<store, nextId, clock>>

\* the next store call of UpdateUser once the user is loaded: the userName
\* check when the userName changes, else the email check when the email
\* changes, else the write
AfterCheckUserName(user, req) ==
    IF user.email # req.email THEN "CheckEmail" ELSE "Write"

\* UpdateUser checking the userName whether or not it changes
AfterLoadAlwaysCheck(user, req) == "CheckUserName"

\* UpdateUser without the userName check
AfterLoadNoUserNameCheck(user, req) == AfterCheckUserName(user, req)

AfterLoad(user, req) ==
    IF user.userName # req.userName THEN "CheckUserName" ELSE AfterCheckUserName(user, req)

\* s.repo.GetByID(ctx, id)
UpdateUserLoad(p, fails) ==
    /\ proc[p].pc = "Load" /\ proc[p].op = "update"
    /\ IF fails
          THEN Finish(p, "Load", ErrStore, 0, ZeroUser, UpdateErrorResp(ErrStore))
          ELSE IF proc[p].id \notin DOMAIN store
          THEN Finish(p, "Load", ErrNoRows, 0, ZeroUser, UpdateErrorResp(ErrNoRows))
          ELSE /\ proc' = [proc EXCEPT
                          ![p].pc = AfterLoad(store[proc[p].id], proc[p].req),
                          ![p].user = store[proc[p].id]]
               /\ reply' = NoReply
    /\ UNCHANGED <<store, nextId, clock>>

\* s.repo.ExistsByUserName(ctx, req.UserName), reached if user.UserName != req.UserName
UpdateUserCheckUserName(p, fails) ==
    /\ proc[p].pc = "CheckUserName" /\ proc[p].op = "update"
    /\ IF fails
       THEN Finish(p, "CheckUserName", ErrStore, 0, ZeroUser, UpdateErrorResp(ErrStore))
       ELSE IF ExistsByUserName(proc[p].req.userName)
       THEN Finish(p, "CheckUserName", ErrUserNameExists, 0, ZeroUser,
                   UpdateErrorResp(ErrUserNameExists))
       ELSE Goto(p, AfterCheckUserName(proc[p].user, proc[p].req))
    /\ UNCHANGED <<store, nextId, clock>>

\* s.repo.ExistsByEmail(ctx, req.Email, id), reached if user.Email != req.Email
UpdateUserCheckEmail(p, fails) ==
    /\ proc[p].pc = "CheckEmail" /\ proc[p].op = "update"
    /\ IF fails
       THEN Finish(p, "CheckEmail", ErrStore, 0, ZeroUser, UpdateErrorResp(ErrStore))
       ELSE IF ExistsByEmail(proc[p].req.email, proc[p].id)
       THEN Finish(p, "CheckEmail", ErrEmailExists, 0, ZeroUser,
                   UpdateErrorResp(ErrEmailExists))
       ELSE Goto(p, "Write")
    /\ UNCHANGED <<store, nextId, clock>>

\* Overwrite that also stamps CreatedAt
OverwriteStampsCreatedAt(user, req, now) ==
    [user EXCEPT !.userName = req.userName, !.firstName = req.firstName,
                 !.lastName = req.lastName, !.email = req.email,
                 !.userStatus = req.userStatus, !.department = req.department,
                 !.createdAt = now, !.updatedAt = now]

\* Overwrite that leaves the stored department in place
OverwriteKeepDepartment(user, req, now) ==
    [user EXCEPT !.userName = req.userName, !.firstName = req.firstName,
                 !.lastName = req.lastName, !.email = req.email,
                 !.userStatus = req.userStatus, !.updatedAt = now]

\* the loaded models.User with every payload field and UpdatedAt overwritten
Overwrite(user, req, now) ==
    [user EXCEPT !.userName = req.userName, !.firstName = req.firstName,
                 !.lastName = req.lastName, !.email = req.email,
                 !.userStatus = req.userStatus, !.department = req.department,
                 !.updatedAt = now]

\* an UpdateUser whose UPDATE leaves the row written also when the store
\* reports a failure
UpdateUserWriteBeforeError(p, fails) ==
    /\ proc[p].pc = "Write" /\ proc[p].op = "update"
    /\ UNCHANGED nextId
    /\ \E now \in Now :
         LET user == Overwrite(proc[p].user, proc[p].req, now) IN
         /\ clock' = now
         /\ store' = [i \in DOMAIN store |->
                         IF i = proc[p].user.id THEN RowOf(user) ELSE store[i]]
         /\ IF fails
            THEN Finish(p, "Write", ErrStore, 0, ZeroUser, UpdateErrorResp(ErrStore))
            ELSE Finish(p, "Write", "", 1, user, Resp(StatusOK, "", <<>>, <<user>>))

\* the status check, the overwrite and s.repo.Update(ctx, user):
\* UPDATE ... SET <every column> WHERE user_id = ?; a statement that matches
\* no row returns no error
UpdateUserWrite(p, fails) ==
    /\ proc[p].pc = "Write" /\ proc[p].op = "update"
    /\ UNCHANGED nextId
    /\ LET req == proc[p].req
           id == proc[p].user.id
       IN
       IF ~ValidStatus(req.userStatus)
       THEN /\ Finish(p, "Write", ErrInvalidStatus, 0, ZeroUser,
                      UpdateErrorResp(ErrInvalidStatus))
            /\ UNCHANGED <<store, clock>>
       ELSE \E now \in Now :
            /\ clock' = now
            /\ LET user == Overwrite(proc[p].user, req, now) IN
               IF fails
               THEN /\ Finish(p, "Write", ErrStore, 0, ZeroUser, UpdateErrorResp(ErrStore))
                    /\ UNCHANGED store
               ELSE IF id \notin DOMAIN store
               THEN /\ Finish(p, "Write", "", 0, user, Resp(StatusOK, "", <<>>, <<user>>))
                    /\ UNCHANGED store
               ELSE IF EmailUniqueViolated(req.email, id)
               THEN /\ Finish(p, "Write", ErrUniqueViolation, 0, ZeroUser,
                              UpdateErrorResp(ErrUniqueViolation))
                    /\ UNCHANGED store
               ELSE /\ store' = [store EXCEPT ![id] = RowOf(user)]
                    /\ Finish(p, "Write", "", 1, user, Resp(StatusOK, "", <<>>, <<user>>))

(***************************************************************************)
(* GET /users/:id, GET /users, DELETE /users/:id: one store call each      *)
(***************************************************************************)
\* a GetUser that stamps the row it reads with the time of the read
GetUserStampsRow(p, id, fails) ==
    /\ Free(p)
    /\ \E now \in Now :
         /\ clock' = now
         /\ IF fails \/ id \notin DOMAIN store
            THEN /\ reply' = Outcome("get", id, ZeroReq, "Get", ErrNoRows, 0, ZeroUser,
                                     Resp(StatusNotFound, MsgUserNotFound, <<>>, <<>>))
                 /\ UNCHANGED store
            ELSE /\ store' = [store EXCEPT ![id].updatedAt = StoreTime(now)]
                 /\ reply' = Outcome("get", id, ZeroReq, "Get", "", 1, store'[id],
                                     Resp(StatusOK, "", <<>>, <<store'[id]>>))
    /\ UNCHANGED <<nextId, proc>>

\* a GetUser that falls back to some stored user when the id is not stored
GetUserFallback(p, id, fails) ==
    /\ Free(p)
    /\ reply' =
              IF fails \/ DOMAIN store = {}
              THEN Outcome("get", id, ZeroReq, "Get", ErrNoRows, 0, ZeroUser,
                           Resp(StatusNotFound, MsgUserNotFound, <<>>, <<>>))
              ELSE LET j == IF id \in DOMAIN store THEN id
                            ELSE CHOOSE x \in DOMAIN store : TRUE
                   IN Outcome("get", id, ZeroReq, "Get", "", 1, store[j],
                              Resp(StatusOK, "", <<>>, <<store[j]>>))
    /\ UNCHANGED <<store, nextId, clock, proc>>

\* UserHandler.GetUser, userService.GetUser, userRepository.GetByID
GetUser(p, id, fails) ==
    /\ Free(p)
    /\ reply' =
              IF fails
              THEN Outcome("get", id, ZeroReq, "Get", ErrStore, 0, ZeroUser,
                           Resp(StatusNotFound, MsgUserNotFound, <<>>, <<>>))
              ELSE IF id \notin DOMAIN store
              THEN Outcome("get", id, ZeroReq, "Get", ErrNoRows, 0, ZeroUser,
                           Resp(StatusNotFound, MsgUserNotFound, <<>>, <<>>))
              ELSE Outcome("get", id, ZeroReq, "Get", "", 1, store[id],
                           Resp(StatusOK, "", <<>>, <<store[id]>>))
    /\ UNCHANGED <<store, nextId, clock, proc>>

\* UserHandler.ListUsers, userService.ListUsers, userRepository.List
ListUsers(p, fails) ==
    /\ Free(p)
    /\ reply' =
              IF fails
              THEN Outcome("list", 0, ZeroReq, "List", ErrStore, 0, ZeroUser,
                           Resp(StatusInternalServerError, ErrStore, <<>>, <<>>))
              ELSE Outcome("list", 0, ZeroReq, "List", "", Len(List), ZeroUser,
                           Resp(StatusOK, "", <<>>, List))
    /\ UNCHANGED <<store, nextId, clock, proc>>

\* a DeleteUser that answers 404 when the statement affects no row
DeleteUserStrict(p, id, fails) ==
    /\ Free(p)
    /\ reply' = IF id \in DOMAIN store
                THEN Outcome("delete", id, ZeroReq, "Delete", "", 1, ZeroUser,
                             Resp(StatusAccepted, "", <<>>, <<>>))
                ELSE Outcome("delete", id, ZeroReq, "Delete", ErrNoRows, 0, ZeroUser,
                             Resp(StatusNotFound, MsgUserNotFound, <<>>, <<>>))
    /\ store' = [i \in DOMAIN store \ {id} |-> store[i]]
    /\ UNCHANGED <<nextId, clock, proc>>

\* a DeleteUser that answers success without deleting
DeleteUserKeepsRow(p, id, fails) ==
    /\ Free(p)
    /\ reply' = Outcome("delete", id, ZeroReq, "Delete", "",
                        IF id \in DOMAIN store THEN 1 ELSE 0, ZeroUser,
                        Resp(StatusAccepted, "", <<>>, <<>>))
    /\ UNCHANGED <<store, nextId, clock, proc>>

\* a DeleteUser whose statement has no WHERE clause
DeleteUserNoWhere(p, id, fails) ==
    /\ Free(p)
    /\ reply' = Outcome("delete", id, ZeroReq, "Delete", "",
                        Cardinality(DOMAIN store), ZeroUser,
                        Resp(StatusAccepted, "", <<>>, <<>>))
    /\ store' = <<>>
    /\ UNCHANGED <<nextId, clock, proc>>

\* UserHandler.DeleteUser, userService.DeleteUser, userRepository.Delete:
\* DELETE ... WHERE user_id = ?; a statement that matches no row returns no
\* error
DeleteUser(p, id, fails) ==
    /\ Free(p)
    /\ IF fails
          THEN /\ reply' = Outcome("delete", id, ZeroReq, "Delete", ErrStore, 0, ZeroUser,
                                   Resp(StatusInternalServerError, ErrStore, <<>>, <<>>))
               /\ UNCHANGED store
          ELSE /\ reply' = Outcome("delete", id, ZeroReq, "Delete", "",
                                   IF id \in DOMAIN store THEN 1 ELSE 0, ZeroUser,
                                   Resp(StatusAccepted, "", <<>>, <<>>))
               /\ store' = [i \in DOMAIN store \ {id} |-> store[i]]
    /\ UNCHANGED <<nextId, clock, proc>>

(***************************************************************************)
(* Specifications                                                          *)
(***************************************************************************)
\* a step of a call that is under way; F: whether its store call may fail
Step(p, F) ==
    \/ \E fails \in F : CreateUserCheckUserName(p, fails)
    \/ \E fails \in F : CreateUserCheckEmail(p, fails)
    \/ \E fails \in F : CreateUserInsert(p, fails)
    \/ \E fails \in F : UpdateUserLoad(p, fails)
    \/ \E fails \in F : UpdateUserCheckUserName(p, fails)
    \/ \E fails \in F : UpdateUserCheckEmail(p, fails)
    \/ \E fails \in F : UpdateUserWrite(p, fails)

\* a caller starts a call with a payload of reqs
Call(p, reqs, F) ==
    \/ \E req \in reqs : CreateUserCall(p, req)
    \/ \E id \in Ids : \E req \in reqs : UpdateUserCall(p, id, req)
    \/ \E id \in Ids : \E fails \in F : GetUser(p, id, fails)
    \/ \E fails \in F : ListUsers(p, fails)
    \/ \E id \in Ids : \E fails \in F : DeleteUser(p, id, fails)

\* any number of calls run concurrently, with payloads that pass validation,
\* over a store that answers every call
Next ==
    \/ \E p \in Procs : Call(p, RaceReqs, {FALSE})
    \/ \E p \in Procs : Step(p, {FALSE})

Spec == Init /\ [][Next]_vars

\* calls run one at a time (a call starts only when no other is under way)
\* over a store whose calls may fail
SeqNext ==
    \/ \E p \in Procs : Quiet(p) /\ Call(p, Reqs, BOOLEAN)
    \/ \E p \in Procs : Step(p, BOOLEAN)

SpecSeq == Init /\ [][SeqNext]_vars

(***************************************************************************)
(* NestJS variant: UsersService.create and UsersService.remove over its    *)
(* own "users" table (unique constraint on email only)                     *)
(***************************************************************************)
StatusConflict == 409

ErrNestUserNameExists == "Username already exists."
ErrNestEmailExists == "Email already exists."
ErrNestNotFound == "User not found."
ErrNestInvalidId == "Invalid User ID provided."

UpperLetters ==
    <<"A", "B", "C", "D", "E", "F", "G", "H", "I", "J", "K", "L", "M",
      "N", "O", "P", "Q", "R", "S", "T", "U", "V", "W", "X", "Y", "Z">>
LowerLetters ==
    <<"a", "b", "c", "d", "e", "f", "g", "h", "i", "j", "k", "l", "m",
      "n", "o", "p", "q", "r", "s", "t", "u", "v", "w", "x", "y", "z">>

\* String.prototype.toLowerCase and SQL lower() on the model's alphabet
ToLowerChar(c) ==
    IF \E k \in DOMAIN UpperLetters : UpperLetters[k] = c
    THEN LowerLetters[CHOOSE k \in DOMAIN UpperLetters : UpperLetters[k] = c]
    ELSE c

ToLowerCase(s) == [i \in 1..Len(s) |-> ToLowerChar(s[i])]

\* the rows that the findFirst of UsersService.create may return:
\* lower(user_name) = userName.toLowerCase() OR lower(email) = email.toLowerCase()
FindFirstMatches(req) ==
    {i \in DOMAIN store :
        \/ ToLowerCase(store[i].userName) = ToLowerCase(req.userName)
        \/ ToLowerCase(store[i].email) = ToLowerCase(req.email)}

\* payloads of the NestJS callers: userNames and emails that differ in
\* letter case only, and others
mailAUpper == <<"A", "@", "x", ".", "c", "o">>
NestReqs ==
    {Req(un, John, Doe, em, "A", deptIT) :
        un \in {john, John, mary}, em \in {mailA, mailAUpper, mailB}}
\* ids given to UsersService.remove: 0 is not a valid id
NestIds == 0..MaxId

\* UsersService.create: findFirst (any one matching row), the comparison of
\* the found row with the payload, then INSERT ... RETURNING *
UsersServiceCreate(req) ==
    /\ UNCHANGED proc
    /\ \/ \E e \in FindFirstMatches(req) :
             /\ store[e].userName = req.userName \/ store[e].email = req.email
             /\ LET err == IF store[e].userName = req.userName
                           THEN ErrNestUserNameExists ELSE ErrNestEmailExists
                IN reply' = Outcome("nestCreate", 0, req, "FindFirst", err, 0, ZeroUser,
                                    Resp(StatusConflict, err, <<>>, <<>>))
             /\ UNCHANGED <<store, nextId, clock>>
       \/ /\ \/ FindFirstMatches(req) = {}
             \/ \E e \in FindFirstMatches(req) :
                   store[e].userName # req.userName /\ store[e].email # req.email
          /\ nextId <= MaxId
          /\ nextId' = nextId + 1
          /\ \E now \in Now :
               /\ clock' = now
               /\ IF EmailUniqueViolated(req.email, nextId)
                  THEN /\ reply' = Outcome("nestCreate", 0, req, "Insert",
                                           ErrNestEmailExists, 0, ZeroUser,
                                           Resp(StatusConflict, ErrNestEmailExists, <<>>, <<>>))
                       /\ UNCHANGED store
                  ELSE LET inserted == [RowOf(NewUser(req, now, now)) EXCEPT !.id = nextId] IN
                       /\ store' = [i \in DOMAIN store \cup {nextId} |->
                                       IF i = nextId THEN inserted ELSE store[i]]
                       /\ reply' = Outcome("nestCreate", 0, req, "Insert", "", 1, inserted,
                                           Resp(StatusCreated, "", <<>>, <<inserted>>))

\* a remove that answers success without looking at the deleted rows
UsersServiceRemoveSilent(id) ==
    /\ reply' = Outcome("nestRemove", id, ZeroReq, "Delete", "",
                        IF id \in DOMAIN store THEN 1 ELSE 0, ZeroUser,
                        Resp(StatusAccepted, "", <<>>, <<>>))
    /\ store' = [i \in DOMAIN store \ {id} |-> store[i]]
    /\ UNCHANGED <<nextId, clock, proc>>

\* UsersService.remove: DELETE ... WHERE user_id = ? RETURNING user_id, and
\* NotFound when nothing was deleted
UsersServiceRemove(id) ==
    /\ IF id <= 0
       THEN /\ reply' = Outcome("nestRemove", id, ZeroReq, "CheckId", ErrNestInvalidId, 0,
                                ZeroUser, Resp(StatusBadRequest, ErrNestInvalidId, <<>>, <<>>))
            /\ UNCHANGED store
       ELSE IF id \notin DOMAIN store
       THEN /\ reply' = Outcome("nestRemove", id, ZeroReq, "Delete", ErrNestNotFound, 0,
                                ZeroUser, Resp(StatusNotFound, ErrNestNotFound, <<>>, <<>>))
            /\ UNCHANGED store
       ELSE /\ reply' = Outcome("nestRemove", id, ZeroReq, "Delete", "", 1, ZeroUser,
                                Resp(StatusAccepted, "", <<>>, <<>>))
            /\ store' = [i \in DOMAIN store \ {id} |-> store[i]]
    /\ UNCHANGED <<nextId, clock, proc>>

\* calls of the NestJS service, one at a time
NestNext ==
    \/ \E req \in NestReqs : UsersServiceCreate(req)
    \/ \E id \in NestIds : UsersServiceRemove(id)

SpecNest == Init /\ [][NestNext]_vars

\* no call has been made yet
Fresh == reply = NoReply /\ \A q \in Procs : Free(q)

\* one Create or Update with a payload of ValidationInputs, sent to a server
\* that has served nothing yet and run to its end
ValidateNext ==
    \/ \E p \in Procs : \E req \in ValidationInputs : Fresh /\ CreateUserCall(p, req)
    \/ \E p \in Procs : \E id \in Ids : \E req \in ValidationInputs :
          Fresh /\ UpdateUserCall(p, id, req)
    \/ \E p \in Procs : CreateUserCheckUserName(p, FALSE)
    \/ \E p \in Procs : CreateUserCheckEmail(p, FALSE)
    \/ \E p \in Procs : CreateUserInsert(p, FALSE)
    \/ \E p \in Procs : UpdateUserLoad(p, FALSE)

SpecValidate == Init /\ [][ValidateNext]_vars

(***************************************************************************)
(* Properties                                                              *)
(***************************************************************************)
RowsWithUserName(userName) == {i \in DOMAIN store : store[i].userName = userName}
RowsWithEmail(email) == {i \in DOMAIN store : store[i].email = email}

\* the tuples of a sequence
Range(seq) == {seq[k] : k \in 1..Len(seq)}

\* C1: with calls run one at a time, no two stored users share a userName
\* and no two share an email
C1_UniqueUserNameAndEmail ==
    \A i, j \in DOMAIN store :
        i # j => /\ store[i].userName # store[j].userName
                 /\ store[i].email # store[j].email

\* two users are stored and an Update that would have duplicated a userName
\* has just been rejected
C1_Witness ==
    /\ Cardinality(DOMAIN store) = 2
    /\ reply.op = "update"
    /\ reply.err = ErrUserNameExists

\* C2: once a Create has inserted its row, that row is the only one holding
\* its userName, also when another Create with the same userName had passed
\* the pre-checks at the same time
C2_OneRowPerRacedUserName ==
    (reply.op = "create" /\ reply.at = "Insert" /\ reply.err = "")
        => Cardinality(RowsWithUserName(reply.req.userName)) = 1

\* C3: under every interleaving of concurrent calls, no two stored users
\* share an email
C3_UniqueEmail ==
    \A i, j \in DOMAIN store : i # j => store[i].email # store[j].email

\* a write that passed the email pre-check has just been rejected by the
\* unique constraint
C3_Witness ==
    /\ reply.err = ErrUniqueViolation
    /\ Cardinality(RowsWithEmail(reply.req.email)) = 1

\* C4: a write that the unique constraint rejects is answered like a
\* conflict found by the pre-check: 400 with "email already exists"
C4_LostRaceAnsweredAsConflict ==
    reply.err = ErrUniqueViolation
        => reply.resp = Resp(StatusBadRequest, ErrEmailExists, <<>>, <<>>)

\* C5: a Create whose email another stored user holds and whose userName no
\* stored user holds is rejected with "email already exists" (unless a store
\* call fails), and exactly one row holds that email
C5_DuplicateEmailRejected ==
    ( /\ reply.op = "create"
      /\ reply.at # "Validate"
      /\ reply.err # ErrStore
      /\ RowsWithEmail(reply.req.email) \ {reply.user.id} # {}
      /\ RowsWithUserName(reply.req.userName) \ {reply.user.id} = {} )
        => /\ reply.err = ErrEmailExists
           /\ reply.resp = Resp(StatusBadRequest, ErrEmailExists, <<>>, <<>>)
           /\ Cardinality(RowsWithEmail(reply.req.email)) = 1

\* a Create with a free userName and a taken email has just been rejected
C5_Witness ==
    /\ reply.op = "create"
    /\ reply.err = ErrEmailExists
    /\ RowsWithUserName(reply.req.userName) = {}
    /\ Cardinality(RowsWithEmail(reply.req.email)) = 1

\* C6: with calls run one at a time, an Update whose payload carries the
\* target's own userName and email succeeds (unless a store call fails)
C6_NoSelfConflict ==
    ( /\ reply.op = "update"
      /\ reply.at # "Validate"
      /\ reply.err # ErrStore
      /\ reply.id \in DOMAIN store
      /\ store[reply.id].userName = reply.req.userName
      /\ store[reply.id].email = reply.req.email )
        => /\ reply.err = ""
           /\ reply.resp.code = StatusOK

\* an Update that kept the loaded userName and email and changed the status
\* and the department has just succeeded
C6_Witness ==
    /\ reply.op = "update"
    /\ reply.at = "Write"
    /\ reply.err = ""
    /\ reply.loaded.userName = reply.req.userName
    /\ reply.loaded.email = reply.req.email
    /\ reply.loaded.department # reply.req.department
    /\ reply.loaded.userStatus # reply.req.userStatus

\* C7: a Get that directly follows a successful Update of the same id
\* returns the payload's six fields, the id and createdAt the user had
\* before, and the update time at the store's resolution as updatedAt
C7_FullReplace ==
    [][ ( /\ reply.op = "update" /\ reply.at = "Write" /\ reply.err = ""
          /\ reply'.op = "get" /\ reply'.id = reply.id
          /\ reply'.err # ErrStore )
        => /\ reply'.err = ""
           /\ reply'.resp.code = StatusOK
           /\ reply'.resp.users = <<reply'.user>>
           /\ reply'.user.userName = reply.req.userName
           /\ reply'.user.firstName = reply.req.firstName
           /\ reply'.user.lastName = reply.req.lastName
           /\ reply'.user.email = reply.req.email
           /\ reply'.user.userStatus = reply.req.userStatus
           /\ reply'.user.department = reply.req.department
           /\ reply'.user.id = reply.id
           /\ reply'.user.createdAt = reply.loaded.createdAt
           /\ reply'.user.updatedAt = StoreTime(reply.user.updatedAt) ]_vars

\* an Update has just replaced every payload field of a user at a later time
\* than the user was created
C7_Witness ==
    /\ reply.op = "update"
    /\ reply.at = "Write"
    /\ reply.err = ""
    /\ reply.loaded.userName # reply.req.userName
    /\ reply.loaded.firstName # reply.req.firstName
    /\ reply.loaded.lastName # reply.req.lastName
    /\ reply.loaded.email # reply.req.email
    /\ reply.loaded.userStatus # reply.req.userStatus
    /\ reply.loaded.department # reply.req.department
    /\ StoreTime(reply.user.updatedAt) > reply.loaded.updatedAt
    /\ store[reply.id] = RowOf(reply.user)

\* C8: a Get that directly follows a successful Create and asks for the id
\* the Create returned gets a user equal to the one the Create returned
C8_RoundTrip ==
    [][ ( /\ reply.op = "create" /\ reply.err = "" /\ reply.at = "Insert"
          /\ reply'.op = "get" /\ reply'.id = reply.user.id
          /\ reply'.err # ErrStore )
        => /\ reply'.err = ""
           /\ reply'.user = reply.user ]_vars

\* C9: a Create whose userName has fewer than 4 characters, or that lacks a
\* required field, is answered 422 with the field and the rule it violates,
\* and writes nothing
C9_InvalidCreateRejected ==
    [][ ( /\ reply'.op = "create"
          /\ \/ Len(reply'.req.userName) < UserNameMin
             \/ reply'.req.lastName = <<>>
             \/ reply'.req.email = <<>>
             \/ reply'.req.userStatus = "" )
        => /\ reply'.at = "Validate"
           /\ reply'.resp.code = StatusUnprocessableEntity
           /\ Len(reply'.req.userName) \in 1..(UserNameMin - 1)
                 => <<"UserName", "min">> \in Range(reply'.resp.fields)
           /\ reply'.req.userName = <<>>
                 => <<"UserName", "required">> \in Range(reply'.resp.fields)
           /\ reply'.req.lastName = <<>>
                 => <<"LastName", "required">> \in Range(reply'.resp.fields)
           /\ reply'.req.email = <<>>
                 => <<"Email", "required">> \in Range(reply'.resp.fields)
           /\ reply'.req.userStatus = ""
                 => <<"UserStatus", "required">> \in Range(reply'.resp.fields)
           /\ store' = store
           /\ nextId' = nextId
           /\ proc' = proc ]_vars

\* a Create with a three-character userName has just been rejected while a
\* user is stored
C9_Witness ==
    /\ reply.op = "create"
    /\ reply.req = ReqShortName
    /\ reply.resp.code = StatusUnprocessableEntity
    /\ DOMAIN store # {}

\* C10 as claimed: an Update of an id that is not stored is answered NotFound
\* whatever the payload
C10_NotFoundForEveryPayload ==
    (reply.op = "update" /\ reply.id \notin DOMAIN store)
        => reply.resp = Resp(StatusNotFound, MsgUserNotFound, <<>>, <<>>)

\* C10 amended: an Update of an id that is not stored writes nothing; it is
\* answered 422 before the load when the payload fails validation, and
\* NotFound when the payload passes validation
C10_ValidatedBeforeLoad ==
    [][ (reply'.op = "update" /\ reply'.id \notin DOMAIN store)
        => /\ store' = store
           /\ reply'.req \in InvalidReqs
                 => /\ reply'.at = "Validate"
                    /\ reply'.resp.code = StatusUnprocessableEntity
                    /\ proc' = proc
           /\ reply'.req \in ValidReqs
                 => /\ reply'.at = "Load"
                    /\ reply'.resp = Resp(StatusNotFound, MsgUserNotFound, <<>>, <<>>) ]_vars

\* an Update of an id that is not stored, with a payload that fails
\* validation, has just been answered 422 while another user is stored
C10_Witness ==
    /\ reply.op = "update"
    /\ reply.id \notin DOMAIN store
    /\ reply.req \in InvalidReqs
    /\ reply.resp.code = StatusUnprocessableEntity
    /\ DOMAIN store # {}

\* C11: an Update whose userName another stored user holds and whose email
\* another stored user holds is rejected with "username already exists",
\* never "email already exists"; checked for the Update that keeps the
\* userName it loaded
C11_UserNameConflictFirst ==
    ( /\ reply.op = "update"
      /\ reply.at \notin {"Validate", "Load"}
      /\ reply.loaded.userName = reply.req.userName
      /\ RowsWithUserName(reply.req.userName) \ {reply.id} # {}
      /\ RowsWithEmail(reply.req.email) \ {reply.id} # {} )
        => /\ reply.err = ErrUserNameExists
           /\ reply.resp = Resp(StatusBadRequest, ErrUserNameExists, <<>>, <<>>)

\* the three values of models.UserStatus
UserStatuses == {UserStatusActive, UserStatusInactive, UserStatusTerminated}

\* C12: every stored user's status is one of A, I, T, and a Create or an
\* Update whose status is empty or another value is rejected at validation,
\* naming the status, with the store left as it was: nothing is written and
\* no default status is put in its place
C12_StatusAlwaysValid ==
    [][ /\ \A i \in DOMAIN store' : store'[i].userStatus \in UserStatuses
        /\ ( /\ reply'.op \in {"create", "update"}
             /\ reply'.req.userStatus \notin UserStatuses )
           => /\ reply'.at = "Validate"
              /\ reply'.resp.code = StatusUnprocessableEntity
              /\ \/ <<"UserStatus", "required">> \in Range(reply'.resp.fields)
                 \/ <<"UserStatus", "oneof">> \in Range(reply'.resp.fields)
              /\ store' = store
              /\ proc' = proc ]_vars

\* an Update of a stored user with status "X" (every other field valid) has
\* just been rejected at validation
C12_Witness ==
    /\ reply.op = "update"
    /\ reply.id \in DOMAIN store
    /\ reply.req = ReqBadStatus
    /\ reply.at = "Validate"
    /\ <<"UserStatus", "oneof">> \in Range(reply.resp.fields)

\* C13: a Get that the store answers returns the stored row whose id is the
\* requested id when there is one, and 404 "user not found" when there is
\* none; no Get returns a user with another id
C13_GetExactMatch ==
    reply.op = "get"
        => /\ \A k \in 1..Len(reply.resp.users) : reply.resp.users[k].id = reply.id
           /\ reply.err # ErrStore
                 => IF reply.id \in DOMAIN store
                    THEN /\ reply.err = ""
                         /\ reply.user = store[reply.id]
                         /\ reply.user.id = reply.id
                         /\ reply.resp = Resp(StatusOK, "", <<>>, <<store[reply.id]>>)
                    ELSE /\ reply.err = ErrNoRows
                         /\ reply.resp = Resp(StatusNotFound, MsgUserNotFound, <<>>, <<>>)

\* a Get of a deleted user's id has just been answered 404 while another
\* user is stored
C13_Witness ==
    /\ reply.op = "get"
    /\ reply.id \notin DOMAIN store
    /\ reply.id < nextId
    /\ DOMAIN store # {}
    /\ reply.resp.code = StatusNotFound

\* C14: a List that the store answers is answered 200 with every stored row
\* exactly once, in strictly ascending id order; on an empty store it is
\* answered 200 with the empty sequence
C14_ListAllAscending ==
    (reply.op = "list" /\ reply.err # ErrStore)
        => LET users == reply.resp.users IN
           /\ reply.err = ""
           /\ reply.resp.code = StatusOK
           /\ Len(users) = Cardinality(DOMAIN store)
           /\ {users[k].id : k \in 1..Len(users)} = DOMAIN store
           /\ \A k \in 1..Len(users) : users[k] = store[users[k].id]
           /\ \A k \in 1..(Len(users) - 1) : users[k].id < users[k + 1].id
           /\ DOMAIN store = {} => users = <<>>

\* a List of two stored users has just been answered
C14_Witness ==
    /\ reply.op = "list"
    /\ reply.err = ""
    /\ Len(reply.resp.users) = 2
    /\ reply.resp.users[1].id < reply.resp.users[2].id

\* C15: a Delete of a stored user that is answered success removes exactly
\* that row, and a Get of the same id that directly follows a successful
\* Delete is answered 404 "user not found"
C15_DeleteThenNotFound ==
    [][ /\ ( /\ reply'.op = "delete" /\ reply'.err = ""
             /\ reply'.id \in DOMAIN store )
           => /\ reply'.rows = 1
              /\ reply'.resp = Resp(StatusAccepted, "", <<>>, <<>>)
              /\ DOMAIN store' = DOMAIN store \ {reply'.id}
              /\ \A i \in DOMAIN store' : store'[i] = store[i]
        /\ ( /\ reply.op = "delete" /\ reply.err = "" /\ reply.rows = 1
             /\ reply'.op = "get" /\ reply'.id = reply.id )
           => /\ reply.id \notin DOMAIN store
              /\ reply'.resp = Resp(StatusNotFound, MsgUserNotFound, <<>>, <<>>) ]_vars

\* a Delete of one of two stored users has just been answered success
C15_Witness ==
    /\ reply.op = "delete"
    /\ reply.err = ""
    /\ reply.rows = 1
    /\ reply.id \notin DOMAIN store
    /\ DOMAIN store # {}

\* C16: a Delete of an id that is not stored, whose statement does not
\* fail, is answered success (202), not NotFound, and leaves the store as it
\* was
C16_DeleteMissingSucceeds ==
    [][ ( /\ reply'.op = "delete"
          /\ reply'.id \notin DOMAIN store
          /\ reply'.err # ErrStore )
        => /\ reply'.err = ""
           /\ reply'.rows = 0
           /\ reply'.resp = Resp(StatusAccepted, "", <<>>, <<>>)
           /\ DOMAIN store' = DOMAIN store
           /\ \A i \in DOMAIN store : store'[i] = store[i]
           /\ nextId' = nextId ]_vars

\* a Delete of an id that is not stored has just been answered success
\* while a user is stored
C16_Witness ==
    /\ reply.op = "delete"
    /\ reply.err = ""
    /\ reply.rows = 0
    /\ reply.resp.code = StatusAccepted
    /\ DOMAIN store # {}

\* C17: the first id is 1; a Create that succeeds gets the next value of
\* the store's sequence, which is greater than the id of every stored user
\* and of every user created before (deleted ones included, since each got
\* a value below the sequence and the sequence never goes back); no step
\* changes the id of a stored user
C17_IdsIncreaseNeverReused ==
    /\ nextId = 1
    /\ [][ /\ nextId' >= nextId
           /\ \A i \in DOMAIN store : i < nextId /\ store[i].id = i
           /\ \A i \in DOMAIN store' : i < nextId' /\ store'[i].id = i
           /\ (reply'.op = "create" /\ reply'.at = "Insert" /\ reply'.err = "")
              => /\ reply'.user.id = nextId
                 /\ nextId' = nextId + 1
                 /\ \A i \in DOMAIN store : i < reply'.user.id
                 /\ DOMAIN store' = DOMAIN store \cup {reply'.user.id}
           /\ (reply'.op = "update" /\ reply'.at = "Write" /\ reply'.err = "")
              => /\ reply'.user.id = reply'.id
                 /\ DOMAIN store' = DOMAIN store ]_vars

\* a Create has just been given id 2 after the user with id 1 was deleted
C17_Witness ==
    /\ reply.op = "create"
    /\ reply.err = ""
    /\ reply.at = "Insert"
    /\ reply.user.id = 2
    /\ DOMAIN store = {2}

\* C18: under every interleaving, every stored user has
\* updatedAt >= createdAt, a Create stores the createdAt it read, and no
\* step changes the createdAt of a stored user
C18_CreatedAtFixedUpdatedAtLater ==
    [][ /\ \A i \in DOMAIN store' : store'[i].updatedAt >= store'[i].createdAt
        /\ \A i \in DOMAIN store \cap DOMAIN store' :
              store'[i].createdAt = store[i].createdAt
        /\ (reply'.op = "create" /\ reply'.at = "Insert" /\ reply'.err = "")
              => /\ reply'.user.updatedAt >= reply'.user.createdAt
                 /\ store'[reply'.user.id].createdAt = StoreTime(reply'.user.createdAt)
        /\ (reply'.op = "update" /\ reply'.at = "Write" /\ reply'.err = "")
              => /\ reply'.user.createdAt = reply'.loaded.createdAt
                 /\ reply'.user.updatedAt >= reply'.user.createdAt ]_vars

\* an Update has just written a later updatedAt to a stored user
C18_Witness ==
    /\ reply.op = "update"
    /\ reply.err = ""
    /\ reply.rows = 1
    /\ store[reply.id].updatedAt > store[reply.id].createdAt
    /\ store[reply.id].createdAt = reply.loaded.createdAt

\* C19: a Get and a List change nothing (store, id sequence, clock, calls
\* in flight), and a Get of the same id, or a List, that directly follows
\* one the store answered and is itself answered by the store, gets the same
\* outcome
C19_ReadsRepeatable ==
    [][ /\ reply'.op \in {"get", "list"}
           => /\ DOMAIN store' = DOMAIN store
              /\ \A i \in DOMAIN store : store'[i] = store[i]
              /\ nextId' = nextId /\ clock' = clock /\ proc' = proc
        /\ ( /\ reply.op = "get" /\ reply'.op = "get" /\ reply'.id = reply.id
             /\ reply.err # ErrStore /\ reply'.err # ErrStore )
           => /\ reply'.user = reply.user
              /\ reply'.resp = reply.resp
        /\ ( /\ reply.op = "list" /\ reply'.op = "list"
             /\ reply.err # ErrStore /\ reply'.err # ErrStore )
           => reply'.resp = reply.resp ]_vars

\* a Get of one of two stored users has just been answered with the row
C19_Witness ==
    /\ reply.op = "get"
    /\ reply.err = ""
    /\ Cardinality(DOMAIN store) = 2
    /\ reply.resp.users = <<store[reply.id]>>

\* C20: a Get, a Create or an Update whose store call fails (for a reason
\* other than a missing row or a unique violation) is answered with an
\* internal error (500), not NotFound, Conflict or a validation failure
C20_StoreFailureIsInternalError ==
    (reply.op \in {"get", "create", "update"} /\ reply.err = ErrStore)
        => reply.resp.code = StatusInternalServerError

\* the validation of a call's payload failed on the department
DepartmentRejected ==
    /\ reply.at = "Validate"
    /\ \E k \in 1..Len(reply.resp.fields) : reply.resp.fields[k][1] = "Department"

\* every character is a letter, a digit, a space or one of , . : ; & #
DepartmentCharsAdmitted(d) ==
    \A i \in 1..Len(d) :
        d[i] \in AsciiLetters \cup OtherLetters \cup Digits \cup {" "} \cup DeptPunct

\* every character is white space
AllWhiteSpace(d) == \A i \in 1..Len(d) : d[i] \in WhiteSpace

\* C21 as claimed: an empty department is accepted and stored as the empty
\* string, a department of white space only is rejected on the department,
\* and any other department is accepted exactly when every character is a
\* letter, a digit, a space or one of , . : ; & #
C21_DepartmentCharactersOnly ==
    reply.op \in {"create", "update"}
        => LET d == reply.req.department IN
           /\ d = <<>>
                 => /\ ~DepartmentRejected
                    /\ (reply.op = "create" /\ reply.at = "Insert" /\ reply.err = "")
                          => store[reply.user.id].department = <<>>
           /\ (d # <<>> /\ AllWhiteSpace(d)) => DepartmentRejected
           /\ (d # <<>> /\ ~AllWhiteSpace(d))
                 => (DepartmentRejected <=> ~DepartmentCharsAdmitted(d))

\* C21 amended: as above, for departments of at most 255 characters; a
\* longer department is rejected on the department whatever its characters
C21_DepartmentValidation ==
    reply.op \in {"create", "update"}
        => LET d == reply.req.department IN
           /\ d = <<>>
                 => /\ ~DepartmentRejected
                    /\ (reply.op = "create" /\ reply.at = "Insert" /\ reply.err = "")
                          => store[reply.user.id].department = <<>>
           /\ (d # <<>> /\ AllWhiteSpace(d))
                 => /\ DepartmentRejected
                    /\ <<"Department", "alphaNumUnicodeWithSpaces">>
                          \in Range(reply.resp.fields)
           /\ (d # <<>> /\ ~AllWhiteSpace(d) /\ Len(d) <= FieldMax)
                 => (DepartmentRejected <=> ~DepartmentCharsAdmitted(d))
           /\ Len(d) > FieldMax
                 => /\ DepartmentRejected
                    /\ <<"Department", "max">> \in Range(reply.resp.fields)

\* a Create whose only fault is a department of a space and a tab has just
\* been rejected on the department
C21_Witness ==
    /\ reply.op = "create"
    /\ reply.req.department = <<" ", "\t">>
    /\ reply.resp.code = StatusUnprocessableEntity
    /\ reply.resp.fields = << <<"Department", "alphaNumUnicodeWithSpaces">> >>

\* C22: for every payload, the validation of a Create and of an Update
\* accept it or reject it alike, and when they reject it they list the same
\* fields with the same rules: what a Create answers is what the update
\* validator yields, and what an Update answers is what the create validator
\* yields
C22_SameRulesCreateUpdate ==
    reply.op \in {"create", "update"}
        => LET other == IF reply.op = "create" THEN ValidateUpdate(reply.req)
                        ELSE ValidateCreate(reply.req)
           IN /\ ValidateCreate(reply.req) = ValidateUpdate(reply.req)
              /\ reply.at = "Validate" <=> other # <<>>
              /\ reply.at = "Validate"
                    => /\ reply.resp.fields = other
                       /\ reply.resp.code = StatusUnprocessableEntity

\* an Update whose payload fails on the userName and on the email has just
\* been rejected with both listed
C22_Witness ==
    /\ reply.op = "update"
    /\ reply.at = "Validate"
    /\ <<"UserName", "min">> \in Range(reply.resp.fields)
    /\ <<"Email", "email">> \in Range(reply.resp.fields)

\* C23: with calls run one at a time, an Update whose userName differs from
\* the one it loaded is rejected with "username already exists", the store
\* left as it was, when another user holds the new userName; when none does
\* (and no other user holds its email) it succeeds and the row carries the
\* new userName
C23_UserNameChangeRechecked ==
    [][ ( /\ reply'.op = "update"
          /\ reply'.at \notin {"Validate", "Load"}
          /\ reply'.err # ErrStore
          /\ reply'.loaded.userName # reply'.req.userName )
        => IF RowsWithUserName(reply'.req.userName) \ {reply'.id} # {}
           THEN /\ reply'.err = ErrUserNameExists
                /\ reply'.resp = Resp(StatusBadRequest, ErrUserNameExists, <<>>, <<>>)
                /\ store' = store
           ELSE RowsWithEmail(reply'.req.email) \ {reply'.id} = {}
                => /\ reply'.err = ""
                   /\ reply'.resp.code = StatusOK
                   /\ store'[reply'.id].userName = reply'.req.userName
                   /\ reply'.user.userName = reply'.req.userName ]_vars

\* an Update has just changed the userName of a stored user
C23_Witness ==
    /\ reply.op = "update"
    /\ reply.at = "Write"
    /\ reply.err = ""
    /\ reply.loaded.userName # reply.req.userName
    /\ store[reply.id].userName = reply.req.userName

\* C24: in the NestJS variant, a create whose userName or email equals a
\* stored user's ignoring letter case is rejected with a Conflict and
\* inserts nothing
C24_NestCreateCaseInsensitive ==
    [][ ( /\ reply'.op = "nestCreate"
          /\ \E i \in DOMAIN store :
                \/ ToLowerCase(store[i].userName) = ToLowerCase(reply'.req.userName)
                \/ ToLowerCase(store[i].email) = ToLowerCase(reply'.req.email) )
        => /\ reply'.resp.code = StatusConflict
           /\ store' = store ]_vars

\* C25: in the NestJS variant, a remove of a stored user's id deletes
\* exactly that row and succeeds; a remove of a valid id that is not stored
\* (never assigned, or deleted before) fails with NotFound and leaves the
\* store as it was
C25_NestRemoveNotFound ==
    [][ (reply'.op = "nestRemove" /\ reply'.id >= 1)
        => IF reply'.id \in DOMAIN store
           THEN /\ reply'.err = ""
                /\ reply'.resp = Resp(StatusAccepted, "", <<>>, <<>>)
                /\ DOMAIN store' = DOMAIN store \ {reply'.id}
                /\ \A i \in DOMAIN store' : store'[i] = store[i]
           ELSE /\ reply'.err = ErrNestNotFound
                /\ reply'.resp = Resp(StatusNotFound, ErrNestNotFound, <<>>, <<>>)
                /\ store' = store ]_vars

\* a remove of an id that was assigned and is no longer stored has just
\* failed with NotFound while another user is stored
C25_Witness ==
    /\ reply.op = "nestRemove"
    /\ reply.err = ErrNestNotFound
    /\ reply.id >= 1 /\ reply.id < nextId
    /\ reply.id \notin DOMAIN store
    /\ DOMAIN store # {}

\* C26: an Update whose write matches no row (the row was deleted after the
\* load) is answered NotFound and returns no user
C26_ZeroRowsIsNotFound ==
    (reply.op = "update" /\ reply.at = "Write" /\ reply.id \notin DOMAIN store)
        => /\ reply.resp.code = StatusNotFound
           /\ reply.resp.users = <<>>

(***************************************************************************)
(* Cancellation: every store call takes the request's context; once the    *)
(* context is cancelled the pending store call returns the context's error *)
(* and the service returns it.  A read has no effect; the single INSERT or *)
(* UPDATE statement has either taken effect as a whole before the          *)
(* cancellation reached it (applied) or has not run.                       *)
(***************************************************************************)
ErrCanceled == "context canceled"

Cancel(p, applied) ==
    /\ ~Free(p)
    /\ LET req == proc[p].req
           pc == proc[p].pc
           id == proc[p].user.id
           resp == IF proc[p].op = "create" THEN CreateErrorResp(ErrCanceled)
                                             ELSE UpdateErrorResp(ErrCanceled)
       IN
       IF applied /\ pc = "Insert"
       THEN /\ ValidStatus(req.userStatus)
            /\ nextId <= MaxId
            /\ ~EmailUniqueViolated(req.email, nextId)
            /\ nextId' = nextId + 1
            /\ \E created \in Now : \E updated \in created..MaxClock :
                 LET inserted == [NewUser(req, created, updated) EXCEPT !.id = nextId] IN
                 /\ clock' = updated
                 /\ store' = [i \in DOMAIN store \cup {nextId} |->
                                 IF i = nextId THEN RowOf(inserted) ELSE store[i]]
                 /\ Finish(p, "Insert", ErrCanceled, 1, ZeroUser, resp)
       ELSE IF applied /\ pc = "Write"
       THEN /\ ValidStatus(req.userStatus)
            /\ id \in DOMAIN store
            /\ ~EmailUniqueViolated(req.email, id)
            /\ UNCHANGED nextId
            /\ \E now \in Now :
                 /\ clock' = now
                 /\ store' = [store EXCEPT ![id] = RowOf(Overwrite(proc[p].user, req, now))]
                 /\ Finish(p, "Write", ErrCanceled, 1, ZeroUser, resp)
       ELSE /\ ~applied
            /\ Finish(p, pc, ErrCanceled, 0, ZeroUser, resp)
            /\ UNCHANGED <<store, nextId, clock>>

\* calls run one at a time over a store that answers every call, and the
\* call under way may be cancelled before any of its store calls
CancelNext ==
    \/ \E p \in Procs : Quiet(p) /\ Call(p, ValidReqs, {FALSE})
    \/ \E p \in Procs : Step(p, {FALSE})
    \/ \E p \in Procs : \E applied \in BOOLEAN : Cancel(p, applied)

SpecCancel == Init /\ [][CancelNext]_vars

\* the six payload fields of a user
PayloadOf(user) ==
    Req(user.userName, user.firstName, user.lastName, user.email,
        user.userStatus, user.department)

\* C27: a cancelled Create or Update leaves the store as it was before the
\* call, or with the one complete row of the call's payload written (a new
\* row for a Create, the row of the id with its id and createdAt kept for an
\* Update) and every other row as it was; and no step but a Delete of its id
\* takes a stored row away, so a row inserted before the cancellation stays
C27_CancelLeavesNoPartialState ==
    [][ /\ (reply'.op \in {"create", "update"} /\ reply'.err = ErrCanceled)
           => \/ store' = store
              \/ /\ reply'.op = "create"
                 /\ \E i \in DOMAIN store' \ DOMAIN store :
                      /\ DOMAIN store' = DOMAIN store \cup {i}
                      /\ \A j \in DOMAIN store : store'[j] = store[j]
                      /\ store'[i].id = i
                      /\ PayloadOf(store'[i]) = reply'.req
                      /\ store'[i].createdAt <= store'[i].updatedAt
              \/ /\ reply'.op = "update"
                 /\ reply'.id \in DOMAIN store
                 /\ DOMAIN store' = DOMAIN store
                 /\ \A j \in DOMAIN store \ {reply'.id} : store'[j] = store[j]
                 /\ store'[reply'.id].id = reply'.id
                 /\ store'[reply'.id].createdAt = store[reply'.id].createdAt
                 /\ PayloadOf(store'[reply'.id]) = reply'.req
        /\ \A i \in DOMAIN store :
              i \in DOMAIN store' \/ (reply'.op = "delete" /\ reply'.id = i) ]_vars

\* a Create was cancelled after its INSERT took effect: the caller got the
\* context's error and the row of its payload is stored
C27_Witness ==
    /\ reply.op = "create"
    /\ reply.at = "Insert"
    /\ reply.err = ErrCanceled
    /\ \E i \in DOMAIN store : PayloadOf(store[i]) = reply.req

\* C28: a Create or an Update that ends with an error (rejected payload,
\* userName or email conflict, invalid status, missing user, failed store
\* call) has written nothing, and no step of a call that is still under way
\* writes: the store changes only in the step that ends a call
C28_ErrorLeavesStoreUnchanged ==
    [][ /\ ( /\ reply'.op \in {"create", "update"}
             /\ reply'.resp.code \notin {StatusOK, StatusCreated} )
           => store' = store
        /\ reply' = NoReply => store' = store ]_vars

\* an Update has just been rejected for its email while two users are stored,
\* and the row it was to replace is as it was loaded
C28_Witness ==
    /\ reply.op = "update"
    /\ reply.err = ErrEmailExists
    /\ Cardinality(DOMAIN store) = 2
    /\ store[reply.id] = reply.loaded

\* C29: a successful Create adds exactly one row, under the id it returns,
\* and changes no stored row; a successful Update changes at most the row of
\* its id and neither adds nor removes a row; a Delete removes at most the
\* row of its id and changes no other row
C29_OwnRowOnly ==
    [][ /\ (reply'.op = "create" /\ reply'.at = "Insert" /\ reply'.err = "")
           => /\ reply'.user.id \notin DOMAIN store
              /\ DOMAIN store' = DOMAIN store \cup {reply'.user.id}
              /\ \A j \in DOMAIN store : store'[j] = store[j]
        /\ (reply'.op = "update" /\ reply'.at = "Write" /\ reply'.err = "")
           => /\ DOMAIN store' = DOMAIN store
              /\ \A j \in DOMAIN store \ {reply'.id} : store'[j] = store[j]
        /\ reply'.op = "delete"
           => /\ DOMAIN store \ {reply'.id} \subseteq DOMAIN store'
              /\ DOMAIN store' \subseteq DOMAIN store
              /\ \A j \in DOMAIN store' : store'[j] = store[j] ]_vars

\* a Delete has just removed one of two stored users and the other one is
\* still stored
C29_Witness ==
    /\ reply.op = "delete"
    /\ reply.rows = 1
    /\ reply.id \notin DOMAIN store
    /\ Cardinality(DOMAIN store) = 1

\* C30: under every interleaving, an Update that writes its row leaves in
\* it the six fields of its own payload, whatever another Update wrote to
\* the same id since this one loaded the user, and every stored row holds
\* the six fields of one single payload
C30_NoMixedRow ==
    [][ /\ (reply'.op = "update" /\ reply'.at = "Write" /\ reply'.rows = 1)
           => /\ reply'.id \in DOMAIN store'
              /\ PayloadOf(store'[reply'.id]) = reply'.req
        /\ \A i \in DOMAIN store' : PayloadOf(store'[i]) \in RaceReqs ]_vars

\* one Update has just written its payload to a user while another Update of
\* the same id with a different payload, which loaded the user before that
\* write, is about to write
C30_Witness ==
    /\ reply.op = "update" /\ reply.at = "Write" /\ reply.rows = 1
    /\ PayloadOf(store[reply.id]) = reply.req
    /\ \E q \in Procs :
         /\ proc[q].op = "update" /\ proc[q].pc = "Write"
         /\ proc[q].id = reply.id
         /\ proc[q].req # reply.req
         /\ proc[q].user = reply.loaded
         /\ PayloadOf(proc[q].user) # reply.req

====
